---- MODULE Spec2Model ----
(***************************************************************************)
(* Process bootstrap of GeminiAutoPM (src/src/index.ts).                   *)
(*                                                                         *)
(* The module script registers three subcommands (pm, agents, all),        *)
(* installs four process-level handlers and calls program.parse().  The    *)
(* selected async action creates a Logger, constructs one server, awaits   *)
(* its start() and either logs success or logs the failure and exits 1.    *)
(*                                                                         *)
(* Strings that the code inspects (the --log-level value) are sequences of *)
(* one-character strings so that toLowerCase() is computed, not assumed.   *)
(* Logger, PMServer and AgentsServer are collaborators outside the source: *)
(* the model records the calls made on them (constructor arguments, log    *)
(* calls, start()); the server constructor and start() fail                *)
(* nondeterministically, and once start() has been called any component    *)
(* may raise an uncaught exception or an unhandled rejection.  The Logger  *)
(* constructor and the log calls are taken not to throw.  Exits performed  *)
(* inside the argument-parsing library (unknown flag, --help, --version)   *)
(* are not part of the source and are not modelled: argv always selects    *)
(* one of the three subcommands.                                           *)
(***************************************************************************)
EXTENDS Integers, Sequences, FiniteSets, TLC

VARIABLES
    pc,              \* position of the main script / the command action
    argv,            \* the command line: subcommand, global and local options
    handlers,        \* process-level handlers installed with process.on
    globalOptions,   \* cmd.parent.opts() as read by the action
    logger,          \* the Logger built by the action (its constructor arguments)
    servers,         \* every server constructor call: class and configuration
    startCalls,      \* number of start() invocations
    options,         \* the command-local options handed to the action
    pendingSignals,  \* signals delivered by the OS, handler not yet run
    sigCount,        \* number of signals delivered so far
    fatal,           \* an uncaught exception / unhandled rejection awaiting its handler
    events,          \* observable history: log calls, throws, handler entries, exit
    exitCode,        \* NoExit until process.exit(code)
    level, parsed    \* the log-level resolution harness (input and result)

vars == <<pc, argv, handlers, globalOptions, options, logger, servers, startCalls,
          pendingSignals, sigCount, fatal, events, exitCode, level, parsed>>

bootVars == <<pc, argv, handlers, globalOptions, options, logger, servers, startCalls,
              pendingSignals, sigCount, fatal, events, exitCode>>

----------------------------------------------------------------------------
(* Bounds *)

\* longest --log-level string enumerated by the resolution harness
MaxLen == 4

\* number of termination signals the OS delivers in one run
MaxSignals == 2

\* number of distinct error objects a collaborator may throw
NumErrors == 2

\* number of fatal errors components raise in one run
MaxRaises == 1

----------------------------------------------------------------------------
(* Strings and log-level resolution *)

Lower == <<"a","b","d","e","f","g","i","n","o","r","u","w">>
Upper == <<"A","B","D","E","F","G","I","N","O","R","U","W">>

\* String.prototype.toLowerCase on one character
LowerChar(c) ==
    IF \E i \in 1..Len(Upper) : Upper[i] = c
    THEN Lower[CHOOSE i \in 1..Len(Upper) : Upper[i] = c]
    ELSE c

toLowerCase(s) == [i \in 1..Len(s) |-> LowerChar(s[i])]

W_error == <<"e","r","r","o","r">>
W_warn  == <<"w","a","r","n">>
W_info  == <<"i","n","f","o">>
W_debug == <<"d","e","b","u","g">>

LogLevel == {"ERROR", "WARN", "INFO", "DEBUG"}

parseLogLevelCaseSensitive(lvl) ==
    CASE lvl = W_error -> "ERROR"
      [] lvl = W_warn  -> "WARN"
      [] lvl = W_info  -> "INFO"
      [] lvl = W_debug -> "DEBUG"
      [] OTHER         -> "INFO"

parseLogLevel(lvl) ==
    LET l == toLowerCase(lvl) IN
    CASE l = W_error -> "ERROR"
      [] l = W_warn  -> "WARN"
      [] l = W_info  -> "INFO"
      [] l = W_debug -> "DEBUG"
      [] OTHER       -> "INFO"

UpperChar(c) ==
    IF \E i \in 1..Len(Lower) : Lower[i] = c
    THEN Upper[CHOOSE i \in 1..Len(Lower) : Lower[i] = c]
    ELSE c

\* every way of writing the word w in mixed letter case
CaseVariants(w) ==
    { [i \in 1..Len(w) |-> IF i \in U THEN UpperChar(w[i]) ELSE w[i]] :
        U \in SUBSET (1..Len(w)) }

Words == {W_error, W_warn, W_info, W_debug}

Recognized == UNION { CaseVariants(w) : w \in Words }

\* characters of the enumerated strings: letters of "info" in both cases,
\* a letter of no level name, a digit and a blank
ParseAlphabet == {"i", "I", "n", "N", "f", "o", "x", "1", " "}

StringsUpTo(n) == UNION { [1..k -> ParseAlphabet] : k \in 0..n }

\* a recognized spelling followed by one more character ("infox", "WARN ")
Suffixed == { Append(s, c) : s \in Recognized, c \in {"x", " ", "s"} }

LevelInputs == Recognized \cup StringsUpTo(MaxLen) \cup Suffixed

----------------------------------------------------------------------------
(* Values *)

Absent   == "absent"      \* an option not given on the command line
NoLogger == [name |-> "none", level |-> "none"]
NoOpts   == [logLevel |-> <<>>, enableContext7 |-> FALSE]   \* opts() not read yet
NoFatal  == [kind |-> "none", err |-> "no error"]
NoErr    == "no error"
NoExit   == 0 - 1      \* process.exit not called yet
NotRun   == "not run"

Commands == {"pm", "agents", "all"}
Signals  == {"SIGINT", "SIGTERM"}
FatalKinds == {"uncaughtException", "unhandledRejection"}
AllHandlersWithoutSIGTERM == {"SIGINT"} \cup FatalKinds

AllHandlers == Signals \cup FatalKinds

\* error objects thrown by collaborators
ErrorNames == <<"E1", "E2", "E3", "E4">>
Errors == { ErrorNames[i] : i \in 1..NumErrors }

\* --log-level values tried by the bootstrap runs
S_DEBUG   == <<"D","E","B","U","G">>
S_Warn    == <<"W","a","r","n">>
S_verbose == <<"v","e","r","b","o","s","e">>
LogLevelStrings == {W_error, S_Warn, S_DEBUG, W_info, S_verbose, <<>>}

\* the values given for --log-level: none, or one string
LogLevelArgs == {<<>>} \cup { <<l>> : l \in LogLevelStrings }

PortArgs == {Absent, "9090"}

\* command lines: a subcommand, the global options and the command-local
\* port options (--port for pm and agents; --pm-port and --agents-port for all)
ArgvSet ==
    { [cmd |-> c, logLevel |-> l, enableContext7 |-> f, port |-> p, agentsPort |-> q] :
        c \in Commands, l \in LogLevelArgs, f \in BOOLEAN,
        p \in PortArgs, q \in {Absent, "9091"} }

WellFormed(a) == a.cmd # "all" => a.agentsPort = Absent

----------------------------------------------------------------------------
(* Option declarations *)

DefaultLogLevel == W_info
DefaultEnableContext7 == TRUE

\* the merged view of both layers, command-local values included
GlobalOptsWithLocals(a) ==
    [ logLevel       |-> IF a.logLevel = <<>> THEN DefaultLogLevel ELSE a.logLevel[1],
      enableContext7 |-> IF a.enableContext7 THEN TRUE ELSE DefaultEnableContext7,
      port           |-> a.port,
      agentsPort     |-> a.agentsPort ]

\* program.opts(): each global option is its command-line value, or its
\* declared default when absent; --enable-context7 is a boolean flag
GlobalOpts(a) ==
    [ logLevel       |-> IF a.logLevel = <<>> THEN DefaultLogLevel ELSE a.logLevel[1],
      enableContext7 |-> IF a.enableContext7 THEN TRUE ELSE DefaultEnableContext7 ]

DefaultPort(cmd) == IF cmd = "agents" THEN "8081" ELSE "8080"


\* the first parameter of the action: the command-local options, as a set
\* of <<key, value>> pairs
LocalOpts(a) ==
    IF a.cmd = "all"
    THEN { <<"pmPort", IF a.port = Absent THEN "8080" ELSE a.port>>,
           <<"agentsPort", IF a.agentsPort = Absent THEN "8081" ELSE a.agentsPort>> }
    ELSE { <<"port", IF a.port = Absent THEN DefaultPort(a.cmd) ELSE a.port>> }

----------------------------------------------------------------------------
(* Per-command constants of the three actions *)

LoggerName(cmd) ==
    CASE cmd = "pm" -> "AutoPM-PM" [] cmd = "agents" -> "AutoPM-Agents" [] cmd = "all" -> "AutoPM-All"

StartingMsg(cmd) ==
    CASE cmd = "pm"     -> "Starting Project Management MCP Server..."
      [] cmd = "agents" -> "Starting Agents MCP Server..."
      [] cmd = "all"    -> "Starting both PM and Agents MCP servers..."

SuccessMsg(cmd) ==
    CASE cmd = "pm"     -> "Project Management server started successfully"
      [] cmd = "agents" -> "Agents server started successfully"
      [] cmd = "all"    -> "PM server started successfully (Agents tools available within PM server)"

FailMsg(cmd) ==
    CASE cmd = "pm"     -> "Failed to start PM server:"
      [] cmd = "agents" -> "Failed to start Agents server:"
      [] cmd = "all"    -> "Failed to start servers:"

SuccessMsgs == { SuccessMsg(c) : c \in Commands }
StartingMsgs == { StartingMsg(c) : c \in Commands }
FailMsgs == { FailMsg(c) : c \in Commands }

ServerClassAllAgents(cmd) == IF cmd = "pm" THEN "PMServer" ELSE "AgentsServer"

ServerClass(cmd) == IF cmd = "agents" THEN "AgentsServer" ELSE "PMServer"

ServerName(cmd) == IF cmd = "agents" THEN "autopm-agents" ELSE "autopm-pm"

Version == "1.0.0"

ServerConfigFixedLevel(cmd, g) ==
    [ name |-> ServerName(cmd), version |-> Version,
      logLevel |-> "INFO", enableContext7 |-> g.enableContext7 ]

\* the object literal passed to the server constructor
ServerConfig(cmd, g) ==
    [ name           |-> ServerName(cmd),
      version        |-> Version,
      logLevel       |-> parseLogLevel(g.logLevel),
      enableContext7 |-> g.enableContext7 ]

\* the object literal passed to the Logger constructor
LoggerConfig(cmd, g) ==
    [ name |-> LoggerName(cmd), level |-> parseLogLevel(g.logLevel) ]

----------------------------------------------------------------------------
(* Events of the observable history *)

LogEv(sink, lvl, msg, err) ==
    [ev |-> "log", sink |-> sink, level |-> lvl, msg |-> msg, err |-> err]

\* logger.info(msg) / logger.error(msg, error)
LoggerInfo(msg)       == LogEv("logger", "INFO", msg, NoErr)
LoggerError(msg, err) == LogEv("logger", "ERROR", msg, err)

\* console.error(...): a line on the standard error stream
ConsoleError(msg, err) == LogEv("console.error", "stderr", msg, err)

ThrowEv(site, err) == [ev |-> "throw", site |-> site, err |-> err]
ExitEv(code)       == [ev |-> "exit", code |-> code]

----------------------------------------------------------------------------
(* Initial state: the program object and its three commands are built;     *)
(* no handler is installed yet and program.parse() has not been called.    *)

InitBoot ==
    /\ pc = "Idle"
    /\ argv \in { a \in ArgvSet : WellFormed(a) }
    /\ handlers = {}
    /\ globalOptions = NoOpts
    /\ options = {}
    /\ logger = NoLogger
    /\ servers = <<>>
    /\ startCalls = 0
    /\ pendingSignals = {}
    /\ sigCount = 0
    /\ fatal = NoFatal
    /\ events = <<>>
    /\ exitCode = NoExit

Init ==
    /\ InitBoot
    /\ level = <<>>
    /\ parsed = NotRun

----------------------------------------------------------------------------
(* process.exit(code): the process ends; nothing runs afterwards *)

ProcessExitDeferred(code, evs) ==
    /\ exitCode' = code
    /\ events' = Append(evs, ExitEv(code))
    /\ UNCHANGED pc

ProcessExit(code, evs) ==
    /\ pc' = "Exited"
    /\ exitCode' = code
    /\ events' = Append(evs, ExitEv(code))

\* the four process.on(...) registrations at module scope
InstallHandlers ==
    /\ pc = "Idle"
    /\ handlers' = AllHandlers
    /\ pc' = "Ready"
    /\ UNCHANGED <<argv, globalOptions, options, logger, servers, startCalls,
                   pendingSignals, sigCount, fatal, events, exitCode, level, parsed>>

\* program.parse(): the library reads process.argv
ProgramParse ==
    /\ pc = "Ready"
    /\ pc' = "Parsing"
    /\ UNCHANGED <<argv, handlers, globalOptions, options, logger, servers, startCalls,
                   pendingSignals, sigCount, fatal, events, exitCode, level, parsed>>

\* the library invokes the action of the selected subcommand, which reads
\* the parent's options (pm also writes a diagnostic line)
ActionEnter ==
    /\ pc = "Parsing"
    /\ globalOptions' = GlobalOpts(argv)
    /\ options' = LocalOpts(argv)
    /\ events' = IF argv.cmd = "pm"
                 THEN Append(events, ConsoleError("CLI: Starting PM server command...", NoErr))
                 ELSE events
    /\ pc' = "Configuring"
    /\ UNCHANGED <<argv, handlers, logger, servers, startCalls,
                   pendingSignals, sigCount, fatal, exitCode, level, parsed>>

\* new Logger({name, level})
CreateLogger ==
    /\ pc = "Configuring"
    /\ logger' = LoggerConfig(argv.cmd, globalOptions)
    /\ pc' = "LoggerCreated"
    /\ UNCHANGED <<argv, handlers, globalOptions, options, servers, startCalls,
                   pendingSignals, sigCount, fatal, events, exitCode, level, parsed>>

LogStartingSkipped ==
    /\ pc = "LoggerCreated"
    /\ pc' = "Construct"
    /\ UNCHANGED <<argv, handlers, globalOptions, options, logger, servers, startCalls,
                   pendingSignals, sigCount, fatal, events, exitCode, level, parsed>>

\* logger.info('Starting ...') (pm first writes 'CLI: Created logger')
LogStarting ==
    /\ pc = "LoggerCreated"
    /\ events' = (IF argv.cmd = "pm"
                  THEN Append(events, ConsoleError("CLI: Created logger", NoErr))
                  ELSE events) \o <<LoggerInfo(StartingMsg(argv.cmd))>>
    /\ pc' = "Construct"
    /\ UNCHANGED <<argv, handlers, globalOptions, options, logger, servers, startCalls,
                   pendingSignals, sigCount, fatal, exitCode, level, parsed>>

CatchBlockNoExit(e, evs) ==
    /\ events' = Append(evs, LoggerError(FailMsg(argv.cmd), e))
    /\ pc' = "Running"
    /\ UNCHANGED exitCode

CatchBlockExit0(e, evs) ==
    ProcessExit(0, Append(evs, LoggerError(FailMsg(argv.cmd), e)))

\* catch (error) { logger.error('Failed to start ...', error); process.exit(1); }
CatchBlock(e, evs) ==
    ProcessExit(1, Append(evs, LoggerError(FailMsg(argv.cmd), e)))

ConstructEv(cmd, g) == [class |-> ServerClass(cmd), config |-> ServerConfig(cmd, g)]

\* new PMServer({...}) / new AgentsServer({...}) returns
ConstructServer ==
    /\ pc = "Construct"
    /\ servers' = Append(servers, ConstructEv(argv.cmd, globalOptions))
    /\ events' = IF argv.cmd = "pm"
                 THEN events \o <<ConsoleError("CLI: Creating PMServer...", NoErr),
                                  ConsoleError("CLI: PMServer created successfully", NoErr)>>
                 ELSE events
    /\ pc' = "CallStart"
    /\ UNCHANGED <<argv, handlers, globalOptions, options, logger, startCalls,
                   pendingSignals, sigCount, fatal, exitCode, level, parsed>>

\* the server constructor throws inside the try block
ConstructServerThrows ==
    /\ pc = "Construct"
    /\ servers' = Append(servers, ConstructEv(argv.cmd, globalOptions))
    /\ \E e \in Errors :
         CatchBlock(e, (IF argv.cmd = "pm"
                        THEN Append(events, ConsoleError("CLI: Creating PMServer...", NoErr))
                        ELSE events) \o <<ThrowEv("constructor", e)>>)
    /\ UNCHANGED <<argv, handlers, globalOptions, options, logger, startCalls,
                   pendingSignals, sigCount, fatal, level, parsed>>

\* server.start() is called and returns a pending promise; the action
\* suspends at the await
CallStart ==
    /\ pc = "CallStart"
    /\ startCalls' = startCalls + 1
    /\ pc' = "AwaitStart"
    /\ UNCHANGED <<argv, handlers, globalOptions, options, logger, servers,
                   pendingSignals, sigCount, fatal, events, exitCode, level, parsed>>

\* server.start() throws synchronously
CallStartThrows ==
    /\ pc = "CallStart"
    /\ startCalls' = startCalls + 1
    /\ \E e \in Errors : CatchBlock(e, Append(events, ThrowEv("start", e)))
    /\ UNCHANGED <<argv, handlers, globalOptions, options, logger, servers,
                   pendingSignals, sigCount, fatal, level, parsed>>

AfterStartSilent(evs) ==
    /\ events' = evs
    /\ pc' = "Running"
    /\ UNCHANGED exitCode

AfterStartExits(evs) ==
    ProcessExit(0, Append(evs, LoggerInfo(SuccessMsg(argv.cmd))))

\* the statement after the await: logger.info('... started successfully');
\* the action returns and the process keeps running
AfterStart(evs) ==
    /\ events' = Append(evs, LoggerInfo(SuccessMsg(argv.cmd)))
    /\ pc' = "Running"
    /\ UNCHANGED exitCode

\* the promise of start() resolves and the action resumes after the await
StartResolves ==
    /\ pc = "AwaitStart"
    /\ fatal = NoFatal
    /\ AfterStart(Append(events, [ev |-> "resolve"]))
    /\ UNCHANGED <<argv, handlers, globalOptions, options, logger, servers, startCalls,
                   pendingSignals, sigCount, fatal, level, parsed>>

StartTimesOut ==
    /\ pc = "AwaitStart"
    /\ fatal = NoFatal
    /\ \E e \in Errors : CatchBlock(e, Append(events, ThrowEv("timeout", e)))
    /\ UNCHANGED <<argv, handlers, globalOptions, options, logger, servers, startCalls,
                   pendingSignals, sigCount, fatal, level, parsed>>

\* the promise of start() rejects and the await throws into the catch block
StartRejects ==
    /\ pc = "AwaitStart"
    /\ fatal = NoFatal
    /\ \E e \in Errors : CatchBlock(e, Append(events, ThrowEv("await start", e)))
    /\ UNCHANGED <<argv, handlers, globalOptions, options, logger, servers, startCalls,
                   pendingSignals, sigCount, fatal, level, parsed>>

----------------------------------------------------------------------------
(* Process-level handlers.  Callbacks run one at a time: a signal handler  *)
(* runs only while the script is suspended at the await or has finished,   *)
(* and a raised fatal error is dispatched before any other callback.       *)

EventLoopIdle == pc \in {"AwaitStart", "Running"} /\ fatal = NoFatal

SignalEv(sig) == [ev |-> "signal", sig |-> sig]
RaiseEv(kind, err) == [ev |-> "raise", kind |-> kind, err |-> err]

OnSignalExit1(evs) ==
    ProcessExit(1, Append(evs, ConsoleError("Received SIGINT, shutting down gracefully...", NoErr)))

OnSignalRestart(evs) ==
    /\ events' = Append(evs, ConsoleError("Received SIGINT, shutting down gracefully...", NoErr))
    /\ pc' = "Construct"
    /\ UNCHANGED exitCode

\* process.on('SIGINT', ...)
OnSIGINT(evs) ==
    ProcessExit(0, Append(evs, ConsoleError("Received SIGINT, shutting down gracefully...", NoErr)))

OnSIGTERMSilent(evs) ==
    ProcessExit(0, evs)

\* process.on('SIGTERM', ...)
OnSIGTERM(evs) ==
    ProcessExit(0, Append(evs, ConsoleError("Received SIGTERM, shutting down gracefully...", NoErr)))

OnUncaughtExceptionContinues(err, evs) ==
    /\ events' = Append(evs, ConsoleError("Uncaught Exception:", err))
    /\ UNCHANGED <<pc, exitCode>>

\* process.on('uncaughtException', ...)
OnUncaughtException(err, evs) ==
    ProcessExit(1, Append(evs, ConsoleError("Uncaught Exception:", err)))

\* process.on('unhandledRejection', ...)
OnUnhandledRejection(err, evs) ==
    ProcessExit(1, Append(evs, ConsoleError("Unhandled Rejection at:", err)))

Raises(evs) == Cardinality({ i \in 1..Len(evs) : evs[i].ev = "raise" })

\* the OS delivers a termination signal to the process
SignalArrives ==
    /\ pc \notin {"Idle", "Exited"}
    /\ sigCount < MaxSignals
    /\ \E sig \in Signals \ pendingSignals :
         pendingSignals' = pendingSignals \cup {sig}
    /\ sigCount' = sigCount + 1
    /\ UNCHANGED <<pc, argv, handlers, globalOptions, options, logger, servers, startCalls,
                   fatal, events, exitCode, level, parsed>>

\* the runtime emits a delivered signal to its registered handler
HandleSignal ==
    /\ EventLoopIdle
    /\ \E sig \in pendingSignals \cap handlers :
         /\ pendingSignals' = pendingSignals \ {sig}
         /\ IF sig = "SIGINT"
            THEN OnSIGINT(Append(events, SignalEv(sig)))
            ELSE OnSIGTERM(Append(events, SignalEv(sig)))
    /\ UNCHANGED <<argv, handlers, globalOptions, options, logger, servers, startCalls,
                   sigCount, fatal, level, parsed>>

\* once start() has been called, some component (the server, a library)
\* throws in a callback outside any try block or leaves a rejected promise
\* without a handler
RaiseFatal ==
    /\ fatal = NoFatal
    /\ Raises(events) < MaxRaises
    /\ pc \in {"AwaitStart", "Running"}
    /\ \E k \in FatalKinds, e \in Errors :
         /\ fatal' = [kind |-> k, err |-> e]
         /\ events' = Append(events, RaiseEv(k, e))
    /\ UNCHANGED <<pc, argv, handlers, globalOptions, options, logger, servers, startCalls,
                   pendingSignals, sigCount, exitCode, level, parsed>>

\* the runtime emits 'uncaughtException' / 'unhandledRejection'
HandleFatal ==
    /\ pc # "Exited"
    /\ fatal # NoFatal
    /\ fatal.kind \in handlers
    /\ fatal' = NoFatal
    /\ IF fatal.kind = "uncaughtException"
       THEN OnUncaughtException(fatal.err, events)
       ELSE OnUnhandledRejection(fatal.err, events)
    /\ UNCHANGED <<argv, handlers, globalOptions, options, logger, servers, startCalls,
                   pendingSignals, sigCount, level, parsed>>

----------------------------------------------------------------------------
Next ==
    \/ InstallHandlers
    \/ ProgramParse
    \/ ActionEnter
    \/ CreateLogger
    \/ LogStarting
    \/ ConstructServer
    \/ ConstructServerThrows
    \/ CallStart
    \/ CallStartThrows
    \/ StartResolves
    \/ StartRejects
    \/ SignalArrives
    \/ HandleSignal
    \/ RaiseFatal
    \/ HandleFatal

Spec == Init /\ [][Next]_vars

\* the runtime always runs a callback that is ready; the collaborators and
\* the OS are under no obligation to settle start() or to send a signal
Fairness ==
    /\ WF_vars(InstallHandlers) /\ WF_vars(ProgramParse) /\ WF_vars(ActionEnter)
    /\ WF_vars(CreateLogger)
    /\ WF_vars(LogStarting)
    /\ WF_vars(ConstructServer \/ ConstructServerThrows)
    /\ WF_vars(CallStart \/ CallStartThrows)
    /\ WF_vars(HandleSignal)
    /\ WF_vars(HandleFatal)

FairSpec == Spec /\ Fairness

----------------------------------------------------------------------------
(* Log-level resolution on its own: one call of parseLogLevel per input *)

InitParse ==
    /\ level \in LevelInputs
    /\ parsed = NotRun
    /\ pc = "Idle"
    /\ argv = [cmd |-> "pm", logLevel |-> <<>>, enableContext7 |-> FALSE,
               port |-> Absent, agentsPort |-> Absent]
    /\ handlers = {}
    /\ globalOptions = NoOpts
    /\ options = {}
    /\ logger = NoLogger
    /\ servers = <<>>
    /\ startCalls = 0
    /\ pendingSignals = {}
    /\ sigCount = 0
    /\ fatal = NoFatal
    /\ events = <<>>
    /\ exitCode = NoExit

Resolve ==
    /\ parsed = NotRun
    /\ parsed' = parseLogLevel(level)
    /\ UNCHANGED <<level, bootVars>>

NextParse == Resolve

SpecParse == InitParse /\ [][NextParse]_vars

----------------------------------------------------------------------------
(* Properties *)

Last(n) == events[Len(events) - n]      \* n-th event from the end, 0 = last

\* places where a startup error enters the catch block
StartupSites == {"constructor", "start", "await start"}

IsStartupError(e) == e.ev = "throw" /\ e.site \in StartupSites

\* an error no try block catches
IsFatalError(e) == e.ev = "raise"

\* C1: in every subcommand, a throw of the server constructor, a throw of
\* start() or a rejection of its promise is immediately followed by one
\* logger.error call carrying the command's failure message and that very
\* error, and then by process.exit(1); nothing else happens in between or
\* afterwards, so the process is neither left running nor exits with 0.
C1_StartupFailureLoggedThenExit1 ==
    \A i \in 1..Len(events) :
        IsStartupError(events[i]) =>
            /\ Len(events) = i + 2
            /\ events[i + 1].ev = "log"
            /\ events[i + 1].sink = "logger"
            /\ events[i + 1].level = "ERROR"
            /\ events[i + 1].err = events[i].err
            /\ events[i + 1].msg =
                 (CASE argv.cmd = "pm"     -> "Failed to start PM server:"
                    [] argv.cmd = "agents" -> "Failed to start Agents server:"
                    [] argv.cmd = "all"    -> "Failed to start servers:")
            /\ events[i + 2] = ExitEv(1)
            /\ pc = "Exited"
            /\ exitCode = 1

C1_Witness ==
    /\ pc = "Exited"
    /\ exitCode = 1
    /\ argv.cmd = "all"
    /\ Len(events) >= 3
    /\ Last(2) = ThrowEv("await start", "E2")
    /\ Last(1) = LoggerError("Failed to start servers:", "E2")

\* C2: once start() has resolved, the very next event is the logger.info
\* call with the command's "started successfully" message, whatever the
\* subcommand and the log level; after it the process is in Running with no
\* exit code until the next event, which can only be a termination signal
\* entering its handler or a fatal error being raised.
C2_SuccessLoggedAndNoExit ==
    /\ \A i \in 1..Len(events) :
         events[i].ev = "resolve" =>
            /\ Len(events) >= i + 1
            /\ events[i + 1].ev = "log"
            /\ events[i + 1].sink = "logger"
            /\ events[i + 1].level = "INFO"
            /\ events[i + 1].msg \in
                 { "Project Management server started successfully",
                   "Agents server started successfully",
                   "PM server started successfully (Agents tools available within PM server)" }
            /\ (events[i + 1].msg = "Agents server started successfully") <=> (argv.cmd = "agents")
            /\ (events[i + 1].msg = "Project Management server started successfully") <=> (argv.cmd = "pm")
            /\ Len(events) = i + 1 => (pc = "Running" /\ exitCode = NoExit)
            /\ Len(events) > i + 1 => events[i + 2].ev \in {"signal", "raise"}
    /\ pc = "Running" =>
         /\ exitCode = NoExit
         /\ \E i \in 1..Len(events) : events[i].ev = "resolve"

\* start() resolved under --log-level error and the process is running
C2_Witness ==
    /\ pc = "Running"
    /\ exitCode = NoExit
    /\ fatal = NoFatal
    /\ logger.level = "ERROR"
    /\ Last(0).ev = "log" /\ Last(0).level = "INFO"
    /\ Last(1).ev = "resolve"

\* C3: over a whole run at most one server constructor call is made and
\* start() is invoked at most once; the one server of pm is a PMServer
\* named autopm-pm, of agents an AgentsServer named autopm-agents, of all a
\* PMServer named autopm-pm (never an AgentsServer); this still holds after
\* a startup failure, a signal or a fatal error, so nothing is retried.
C3_OneServerOneStart ==
    /\ Len(servers) <= 1
    /\ startCalls <= 1
    /\ startCalls <= Len(servers)
    /\ pc \in {"CallStart", "AwaitStart", "Running"} => Len(servers) = 1
    /\ \A i \in 1..Len(servers) :
         /\ argv.cmd = "pm" =>
              servers[i].class = "PMServer" /\ servers[i].config.name = "autopm-pm"
         /\ argv.cmd = "agents" =>
              servers[i].class = "AgentsServer" /\ servers[i].config.name = "autopm-agents"
         /\ argv.cmd = "all" =>
              servers[i].class = "PMServer" /\ servers[i].config.name = "autopm-pm"

\* the all command failed after start() was called, and nothing was retried
C3_Witness ==
    /\ argv.cmd = "all"
    /\ pc = "Exited"
    /\ exitCode = 1
    /\ Len(servers) = 1
    /\ servers[1].class = "PMServer"
    /\ startCalls = 1
    /\ \E i \in 1..Len(events) : IsStartupError(events[i])

SignalHandledNow == \E sig \in pendingSignals : sig \notin pendingSignals'

\* C4: a step in which the handler of SIGINT or SIGTERM runs while the
\* server is running ends the process with exit code 0, and that step
\* constructs no server and does not invoke start().
C4_SignalWhileRunningExits0 ==
    [][ (pc = "Running" /\ SignalHandledNow) =>
           /\ pc' = "Exited"
           /\ exitCode' = 0
           /\ servers' = servers
           /\ startCalls' = startCalls ]_vars

\* a signal handler ran after the success log and the process exited with 0
C4_Witness ==
    /\ pc = "Exited"
    /\ exitCode = 0
    /\ Len(events) >= 5
    /\ Last(2).ev = "signal"
    /\ Last(3).ev = "log" /\ Last(3).msg \in SuccessMsgs
    /\ Len(servers) = 1
    /\ startCalls = 1

\* C5: after every fatal error (an uncaught exception or an unhandled
\* rejection, raised while start() is pending or after it resolved)
\* either nothing has happened yet and its handler is about to run, or the
\* next two events are a console.error line carrying that error and
\* process.exit(1), and they are the last events of the run.
C5_FatalErrorLoggedThenExit1 ==
    \A i \in 1..Len(events) :
        IsFatalError(events[i]) =>
            \/ /\ Len(events) = i
               /\ fatal # NoFatal
               /\ fatal.err = events[i].err
               /\ pc # "Exited"
            \/ /\ Len(events) = i + 2
               /\ events[i + 1].ev = "log"
               /\ events[i + 1].sink = "console.error"
               /\ events[i + 1].err = events[i].err
               /\ events[i + 2] = ExitEv(1)
               /\ pc = "Exited"
               /\ exitCode = 1
               /\ fatal = NoFatal

\* an unhandled rejection raised after startup completed ended the process
C5_Witness ==
    /\ pc = "Exited"
    /\ exitCode = 1
    /\ Len(events) >= 5
    /\ Last(2) = RaiseEv("unhandledRejection", "E1")
    /\ Last(1) = ConsoleError("Unhandled Rejection at:", "E1")
    /\ Last(3).ev = "log" /\ Last(3).msg \in SuccessMsgs

----------------------------------------------------------------------------
(* The lifecycle states of the design, read off the program position *)

Phase ==
    CASE pc \in {"Idle", "Ready"}                                   -> "Idle"
      [] pc = "Parsing"                                             -> "Parsing"
      [] pc \in {"Configuring", "LoggerCreated"}                    -> "Configuring"
      [] pc \in {"Construct", "CallStart", "AwaitStart"}            -> "Starting"
      [] pc = "Running"                                             -> "Running"
      [] pc = "Exited" /\ exitCode = 0                              -> "Exited0"
      [] pc = "Exited" /\ exitCode # 0                              -> "Exited1"

\* the event that led to the exit: every exit is <<cause, log line, exit>>
ExitCause == events[Len(events) - 2]

\* the transitions of the state machine as the design document lists them;
\* ShuttingDown is the run of the signal handler, FailedExit and Exited(1)
\* are both the exit with code 1
ListedTransitions ==
    { <<"Idle", "Parsing">>, <<"Parsing", "Configuring">>,
      <<"Configuring", "Starting">>, <<"Starting", "Running">>,
      <<"Starting", "Exited1">>, <<"Running", "Exited0">>, <<"Running", "Exited1">> }

C8_ParseLogLevel ==
    parsed # NotRun =>
        /\ parsed \in LogLevel
        /\ level \in CaseVariants(W_error) => parsed = "ERROR"
        /\ level \in CaseVariants(W_warn)  => parsed = "WARN"
        /\ level \in CaseVariants(W_info)  => parsed = "INFO"
        /\ level \in CaseVariants(W_debug) => parsed = "DEBUG"
        /\ level \notin Recognized => parsed = "INFO"

\* the mixed-case spelling "dEbUg" resolved to DEBUG
C8_Witness ==
    /\ parsed = "DEBUG"
    /\ level = <<"d", "E", "b", "U", "g">>

\* the level a --log-level value stands for, by enumeration of spellings
ExpectedLevel(a) ==
    IF a.logLevel = <<>> THEN "INFO"
    ELSE CASE a.logLevel[1] \in CaseVariants(W_error) -> "ERROR"
           [] a.logLevel[1] \in CaseVariants(W_warn)  -> "WARN"
           [] a.logLevel[1] \in CaseVariants(W_debug) -> "DEBUG"
           [] OTHER                                   -> "INFO"

\* C9: in every subcommand and for every value of the global options, the
\* configuration passed to the server constructor has the name fixed by the
\* subcommand, version "1.0.0", the level resolved from --log-level (INFO
\* when absent) and enableContext7 true with or without the flag; the Logger
\* of the action was created with the same level.
C9_ServerConfiguration ==
    \A i \in 1..Len(servers) :
        /\ servers[i].config =
             [ name           |-> IF argv.cmd = "agents" THEN "autopm-agents" ELSE "autopm-pm",
               version        |-> "1.0.0",
               logLevel       |-> ExpectedLevel(argv),
               enableContext7 |-> TRUE ]
        /\ logger.level = servers[i].config.logLevel

\* pm --log-level DEBUG --port 9090 without the flag: the server got DEBUG
C9_Witness ==
    /\ Len(servers) = 1
    /\ argv.cmd = "pm"
    /\ argv.logLevel = <<S_DEBUG>>
    /\ argv.port = "9090"
    /\ ~argv.enableContext7
    /\ servers[1].config.logLevel = "DEBUG"
    /\ servers[1].config.enableContext7
    /\ pc = "Running"

ErrorOccurred ==
    \E i \in 1..Len(events) : IsStartupError(events[i]) \/ IsFatalError(events[i])

ErrorReported ==
    /\ pc = "Exited"
    /\ exitCode = 1
    /\ Len(events) >= 3
    /\ IsStartupError(Last(2)) \/ IsFatalError(Last(2))
    /\ Last(1).ev = "log"
    /\ Last(1).sink \in {"logger", "console.error"}
    /\ Last(1).level \in {"ERROR", "stderr"}
    /\ Last(1).err = Last(2).err
    /\ Last(0) = ExitEv(1)
    /\ \A i \in 1..(Len(events) - 3) : ~(IsStartupError(events[i]) \/ IsFatalError(events[i]))

\* C10: every startup error and every fatal error leads to a state in which
\* the process has exited with code 1 and the error is the last thing that
\* happened before an error log line carrying it and the exit; no error is
\* left without its log line and exit (no hang, no silent success).
C10_EveryErrorReportedThenExit ==
    ErrorOccurred ~> ErrorReported

\* the agents command: the server constructor threw, the error was logged
\* and the process exited
C10_Witness ==
    /\ ErrorReported
    /\ argv.cmd = "agents"
    /\ Last(2) = ThrowEv("constructor", "E1")
    /\ Last(1) = LoggerError("Failed to start Agents server:", "E1")

----------------------------------------------------------------------------
\* the line a signal handler writes
SignalLine(sig) ==
    IF sig = "SIGINT"
    THEN ConsoleError("Received SIGINT, shutting down gracefully...", NoErr)
    ELSE ConsoleError("Received SIGTERM, shutting down gracefully...", NoErr)

\* C11: whenever the handler of SIGINT or SIGTERM runs, in whatever state
\* the process is (start() pending or resolved), that one step writes the
\* handler's line and calls process.exit(0): the history grows by exactly
\* the signal, its line and the exit, and no server is constructed, start()
\* is not called, and no success or error log is made in that step.
C11_SignalLogsAndExitsInOneStep ==
    [][ \A sig \in Signals :
          (sig \in pendingSignals /\ sig \notin pendingSignals') =>
             /\ events' = events \o <<SignalEv(sig), SignalLine(sig), ExitEv(0)>>
             /\ pc' = "Exited"
             /\ exitCode' = 0
             /\ servers' = servers
             /\ startCalls' = startCalls
             /\ fatal' = fatal ]_vars

\* SIGTERM was handled while start() was still pending
C11_Witness ==
    /\ pc = "Exited"
    /\ exitCode = 0
    /\ startCalls = 1
    /\ Len(events) >= 3
    /\ Last(2) = SignalEv("SIGTERM")
    /\ Last(1) = ConsoleError("Received SIGTERM, shutting down gracefully...", NoErr)
    /\ \A i \in 1..Len(events) : events[i].ev \notin {"resolve", "throw", "raise"}

----------------------------------------------------------------------------
\* positions in the history of the logger calls with a message of msgs
LoggerCalls(msgs) ==
    { i \in 1..Len(events) :
        events[i].ev = "log" /\ events[i].sink = "logger" /\ events[i].msg \in msgs }

\* C12: in one run the Logger is created, then the "Starting..." log is
\* made, then the server is constructed, then start() is called, each at
\* most once and none before its predecessor; the success log is made at
\* most once and only right after start() resolved, the failure log at most
\* once and only right after a startup error and right before exit 1; the
\* "Starting..." log precedes both, and the success log and the failure log
\* never both occur.
C12_LinearOrderOfSteps ==
    LET st == LoggerCalls(StartingMsgs)
        ok == LoggerCalls(SuccessMsgs)
        ko == LoggerCalls(FailMsgs)
    IN  /\ Cardinality(st) <= 1 /\ Cardinality(ok) <= 1 /\ Cardinality(ko) <= 1
        /\ Len(servers) <= 1 /\ startCalls <= 1
        /\ ok = {} \/ ko = {}
        /\ st # {} => logger # NoLogger
        /\ Len(servers) >= 1 => st # {}
        /\ startCalls >= 1 => (Len(servers) = 1 /\ st # {})
        /\ \A i \in ok :
             /\ startCalls = 1
             /\ i > 1 /\ events[i - 1].ev = "resolve"
             /\ \A j \in st : j < i
        /\ \A i \in ko :
             /\ Len(servers) = 1
             /\ i > 1 /\ IsStartupError(events[i - 1])
             /\ events[i - 1].site = "constructor" <=> startCalls = 0
             /\ Len(events) = i + 1 /\ events[i + 1] = ExitEv(1)
             /\ \A j \in st : j < i
        /\ \A i \in 1..Len(events) :
             events[i].ev = "resolve" => (startCalls = 1 /\ (i + 1) \in ok)
        /\ \A i \in 1..Len(events) :
             IsStartupError(events[i]) => (i + 1) \in ko
        /\ pc \in {"Idle", "Ready", "Parsing", "Configuring"} =>
             (logger = NoLogger /\ st = {} /\ servers = <<>> /\ startCalls = 0)
        /\ pc = "LoggerCreated" =>
             (logger # NoLogger /\ st = {} /\ servers = <<>> /\ startCalls = 0)
        /\ pc = "Construct" => (st # {} /\ servers = <<>> /\ startCalls = 0)
        /\ pc = "CallStart" => (Len(servers) = 1 /\ startCalls = 0)
        /\ pc = "AwaitStart" => (startCalls = 1 /\ ok = {} /\ ko = {})
        /\ pc = "Running" => (ok # {} /\ ko = {})

\* the pm action went through every step and start() then rejected
C12_Witness ==
    /\ argv.cmd = "pm"
    /\ pc = "Exited"
    /\ exitCode = 1
    /\ startCalls = 1
    /\ Len(servers) = 1
    /\ Cardinality(LoggerCalls({"Starting Project Management MCP Server..."})) = 1
    /\ Cardinality(LoggerCalls({"Failed to start PM server:"})) = 1
    /\ LoggerCalls(SuccessMsgs) = {}
    /\ Len(events) >= 3
    /\ Last(2).ev = "throw" /\ Last(2).site = "await start"

----------------------------------------------------------------------------
\* the first event a step adds to the history
FirstNew == events'[Len(events) + 1]

\* C13: while the action is suspended at await server.start(), every step
\* is an event from outside the bootstrap: a signal arrives or a fatal error
\* is raised (the process stays suspended), start() resolves or rejects, or
\* a signal or fatal-error handler runs; the bootstrap has no timer or other
\* step of its own, so without such an event the process stays in Starting.
C13_NoStepOfItsOwnWhilePending ==
    [][ pc = "AwaitStart" =>
          /\ servers' = servers /\ startCalls' = startCalls /\ logger' = logger
          /\ \/ /\ pc' = "AwaitStart"
                /\ exitCode' = NoExit
                /\ \/ events' = events /\ pendingSignals' # pendingSignals
                   \/ /\ events' = Append(events, FirstNew)
                      /\ FirstNew.ev = "raise"
                      /\ fatal = NoFatal /\ fatal' # NoFatal
             \/ /\ pc' = "Running"
                /\ Len(events') > Len(events) /\ FirstNew.ev = "resolve"
             \/ /\ pc' = "Exited"
                /\ Len(events') > Len(events)
                /\ \/ FirstNew.ev = "throw" /\ FirstNew.site = "await start"
                   \/ FirstNew.ev = "signal"
                   \/ fatal # NoFatal /\ FirstNew.ev = "log" /\ FirstNew.err = fatal.err ]_vars

\* start() is pending and nothing from outside has happened yet
C13_Witness ==
    /\ pc = "AwaitStart"
    /\ startCalls = 1
    /\ exitCode = NoExit
    /\ pendingSignals = {}
    /\ sigCount = 0
    /\ fatal = NoFatal
    /\ \A i \in 1..Len(events) : events[i].ev = "log"

\* start() is eventually settled or interrupted (not guaranteed: see C13)
StartEventuallyOver == <>(pc \in {"Running", "Exited"})

----------------------------------------------------------------------------
\* the command lines that differ from a at most in the command-local options
Twins(a) ==
    { b \in ArgvSet : /\ WellFormed(b)
                      /\ b.cmd = a.cmd
                      /\ b.logLevel = a.logLevel
                      /\ b.enableContext7 = a.enableContext7 }

\* every message a run of subcommand cmd can log
MessagesOf(cmd) ==
    { StartingMsg(cmd), SuccessMsg(cmd), FailMsg(cmd),
      "Received SIGINT, shutting down gracefully...",
      "Received SIGTERM, shutting down gracefully...",
      "Uncaught Exception:", "Unhandled Rejection at:" }
    \cup (IF cmd = "pm"
          THEN { "CLI: Starting PM server command...", "CLI: Created logger",
                 "CLI: Creating PMServer...", "CLI: PMServer created successfully" }
          ELSE {})

----------------------------------------------------------------------------
ExitEvents(evs) == { i \in 1..Len(evs) : evs[i].ev = "exit" }

\* C15: the step that calls process.exit sets the exit code once, as the
\* last event of the history, and ends the process; from then on no log
\* entry is made, no server is constructed, start() is not called, no
\* handler runs and the exit code never changes, also when a signal is
\* still waiting for its handler at that moment.
C15_ExitIsTerminalAndUnique ==
    [][ /\ exitCode # NoExit =>
             UNCHANGED <<pc, exitCode, events, servers, startCalls, logger,
                         fatal, pendingSignals, handlers>>
        /\ (exitCode = NoExit /\ exitCode' # NoExit) =>
             /\ pc' = "Exited"
             /\ ExitEvents(events) = {}
             /\ ExitEvents(events') = {Len(events')}
             /\ events'[Len(events')] = ExitEv(exitCode')
        /\ pc' = "Exited" => exitCode' # NoExit ]_vars

\* start() rejected and the process exited with 1 while a delivered SIGTERM
\* was still waiting for its handler
C15_Witness ==
    /\ pc = "Exited"
    /\ exitCode = 1
    /\ "SIGTERM" \in pendingSignals
    /\ Len(events) >= 3
    /\ Last(2).ev = "throw" /\ Last(2).site = "await start"
    /\ ExitEvents(events) = {Len(events)}

\* C16: from the moment program.parse() is called, through the whole
\* command action and after the exit, all four handlers (SIGINT, SIGTERM,
\* uncaughtException, unhandledRejection) are installed; before that no
\* part of a command action has run.
C16_HandlersInstalledBeforeParsing ==
    /\ pc \notin {"Idle"} =>
         handlers = {"SIGINT", "SIGTERM", "uncaughtException", "unhandledRejection"}
    /\ pc = "Idle" =>
         (events = <<>> /\ logger = NoLogger /\ servers = <<>> /\ startCalls = 0)
    /\ Phase \in {"Parsing", "Configuring", "Starting", "Running"} =>
         Cardinality(handlers) = 4

\* the server is running with the four handlers installed
C16_Witness ==
    /\ pc = "Running"
    /\ handlers = {"SIGINT", "SIGTERM", "uncaughtException", "unhandledRejection"}
    /\ pendingSignals = {}
    /\ fatal = NoFatal

====
